---------------------------- MODULE Spec2Model ----------------------------
(***************************************************************************)
(* Model of cara, the chess adjudication rule analyzer.                    *)
(*   src/src/rule_test.rs  rules, adjudicate_game, test_rule, main         *)
(*   src/src/game_data.rs  CommentParser, map_single_game_data,            *)
(*                         map_game_data                                   *)
(*   src/src/main.rs       MoveData, GameData, read_games                  *)
(* All integers are kept inside the i32 / u32 range by the bounds below,   *)
(* so no arithmetic of the program overflows in the model.                 *)
(***************************************************************************)
EXTENDS Integers, Sequences, FiniteSets, TLC

VARIABLES
    \* adjudicate_game: its arguments, its locals, its return value
    game, resign_rule, draw_rule,
    ply0, total_time, resign_counts, draw_count,
    rule_applied, adjudicated_outcome, outcome, pc,
    \* test_rule: its arguments (with resign_rule, draw_rule), its loop
    \* index, its accumulators, what it has printed
    games, verbose, index, acc, stdout, tpc,
    \* CommentParser::parse: its argument and its return value
    comment, parsed,
    \* map_single_game_data: its argument and its return value
    raw_game, single_result,
    \* map_game_data: its argument, its loop index, the Vec it builds, its
    \* return value
    raw_games, mindex, result, map_result, mpc,
    \* main: the rule arguments, the process's stderr and exit code
    \* (stdout is test_rule's), its position
    resign_input, draw_input, stderr, exit_code, main_pc

adjVars == <<game, resign_rule, draw_rule, ply0, total_time, resign_counts,
             draw_count, rule_applied, adjudicated_outcome, outcome, pc>>

testVars == <<games, verbose, index, acc, stdout, tpc>>

parseVars == <<comment, parsed>>

singleVars == <<raw_game, single_result>>

mapVars == <<raw_games, mindex, result, map_result, mpc>>

mainVars == <<resign_input, draw_input, stderr, exit_code, main_pc>>

vars == <<adjVars, testVars, parseVars, singleVars, mapVars, mainVars>>

\* Option<T>: None, Some(v), unwrap
None == <<>>
Some(v) == <<v>>
Unwrap(o) == o[1]

Abs(x) == IF x < 0 THEN -x ELSE x

-----------------------------------------------------------------------------
(* Bounds of the model                                                     *)

\* longest game (in plies) handed to adjudicate_game in Spec
MaxPly == 5

-----------------------------------------------------------------------------
(* Data: main.rs MoveData / GameData, rule_test.rs GameStats and rules     *)

MoveData(eval, time) == [eval |-> eval, time |-> time]

\* A game's move_data is kept as one period of moves repeated up to len
\* plies; where len = Len(move_data) the period is the game itself.
GameData(score10, move_data, len) ==
    [score10 |-> score10, move_data |-> move_data, len |-> len]

\* game.move_data[p], p 0-based
MoveAt(g, p) == g.move_data[(p % Len(g.move_data)) + 1]

GameStats(length, time, score10) ==
    [length |-> length, time |-> time, score10 |-> score10]

\* Result<T, E>; Panic is a call that unwinds instead of returning
Ok(v) == [kind |-> "Ok", value |-> v]
Err(e) == [kind |-> "Err", value |-> e]
Panic(m) == [kind |-> "Panic", value |-> m]
IsOk(r) == r.kind = "Ok"
IsErr(r) == r.kind = "Err"
IsPanic(r) == r.kind = "Panic"

\* Result::unwrap
UnwrapResult(r) ==
    IF IsOk(r) THEN r ELSE Panic("called Result::unwrap() on an Err value")

ResignRuleNew(eval, count) ==
    IF eval <= 0 THEN Err("eval is out of range.")
    ELSE IF count = 0 THEN Err("count is out of range.")
    ELSE Ok([eval |-> eval, count |-> count])

DrawRuleNew(from_move, eval, count) ==
    IF from_move = 0 THEN Err("from_move is out of range.")
    ELSE IF eval < 0 THEN Err("eval is out of range.")
    ELSE IF count = 0 THEN Err("count is out of range.")
    ELSE Ok([from_move |-> from_move, eval |-> eval, count |-> count])

-----------------------------------------------------------------------------
(* Strings are sequences of one-character strings.                          *)
(* str::split, str::parse::<i32>, str::parse::<u32>                         *)

Digits == {"0", "1", "2", "3", "4", "5", "6", "7", "8", "9"}

DigitValue(c) ==
    CASE c = "0" -> 0 [] c = "1" -> 1 [] c = "2" -> 2 [] c = "3" -> 3
      [] c = "4" -> 4 [] c = "5" -> 5 [] c = "6" -> 6 [] c = "7" -> 7
      [] c = "8" -> 8 [] c = "9" -> 9

IsDigits(s) == \A i \in 1..Len(s) : s[i] \in Digits

RECURSIVE DigitsValue(_)
\* the number a non-empty string of decimal digits denotes
DigitsValue(s) ==
    IF Len(s) = 0 THEN 0
    ELSE 10 * DigitsValue(SubSeq(s, 1, Len(s) - 1)) + DigitValue(s[Len(s)])

\* The strings of the model are short: every number written in them fits
\* i32 and u32, so the overflow error of str::parse never arises.

\* str::parse::<i32>: an optional sign, then one or more digits
ParseI32(s) ==
    LET signed == Len(s) > 0 /\ s[1] \in {"-", "+"}
        digits == IF signed THEN Tail(s) ELSE s
    IN  IF Len(digits) = 0 \/ ~IsDigits(digits)
        THEN Err("ParseIntError")
        ELSE IF signed /\ s[1] = "-" THEN Ok(-DigitsValue(digits))
        ELSE Ok(DigitsValue(digits))

\* str::parse::<u32>: an optional '+', then one or more digits
ParseU32(s) ==
    LET signed == Len(s) > 0 /\ s[1] = "+"
        digits == IF signed THEN Tail(s) ELSE s
    IN  IF Len(digits) = 0 \/ ~IsDigits(digits)
        THEN Err("ParseIntError")
        ELSE Ok(DigitsValue(digits))

RECURSIVE Split(_, _)
\* str::split(sep).collect(): the parts between the separators, at least one
Split(s, sep) ==
    IF \A i \in 1..Len(s) : s[i] # sep THEN <<s>>
    ELSE LET i == CHOOSE j \in 1..Len(s) :
                     s[j] = sep /\ \A k \in 1..(j - 1) : s[k] # sep
         IN  <<SubSeq(s, 1, i - 1)>> \o Split(SubSeq(s, i + 1, Len(s)), sep)

\* args[i], 0-based: indexing a Vec out of bounds panics
Index(args, i) ==
    IF i < Len(args) THEN Ok(args[i + 1]) ELSE Panic("index out of bounds")

-----------------------------------------------------------------------------
(* parse_resign_rule / parse_draw_rule, rule_test.rs 87-164                *)

StrNone == <<"n", "o", "n", "e">>

ParseResignRule(input) ==
    IF input = StrNone THEN UnwrapResult(ResignRuleNew(10000, 10000))
    ELSE
    LET args == Split(input, "/")
        eval == ParseI32(args[1])
    IN  IF ~IsOk(eval) THEN Err("BadFormat")
        ELSE IF eval.value <= 0 THEN Err("NonPositiveEval")
        ELSE IF IsPanic(Index(args, 1)) THEN Index(args, 1)
        ELSE
        LET count == ParseU32(Index(args, 1).value)
        IN  IF ~IsOk(count) THEN Err("BadFormat")
            ELSE IF count.value = 0 THEN Err("NonPositiveCount")
            ELSE UnwrapResult(ResignRuleNew(eval.value, count.value))

ParseDrawRule(input) ==
    IF input = StrNone THEN UnwrapResult(DrawRuleNew(10000, 0, 10000))
    ELSE
    LET args1 == Split(input, ":")
        from_move == ParseU32(args1[1])
    IN  IF ~IsOk(from_move) THEN Err("BadFormat")
        ELSE IF from_move.value = 0 THEN Err("NonPositiveFromMove")
        ELSE IF IsPanic(Index(args1, 1)) THEN Index(args1, 1)
        ELSE
        LET args2 == Split(Index(args1, 1).value, "/")
            eval == ParseI32(args2[1])
        IN  IF ~IsOk(eval) THEN Err("BadFormat")
            ELSE IF eval.value <= 0 THEN Err("NegativeEval")
            ELSE IF IsPanic(Index(args2, 1)) THEN Index(args2, 1)
            ELSE
            LET count == ParseU32(Index(args2, 1).value)
            IN  IF ~IsOk(count) THEN Err("BadFormat")
                ELSE IF count.value = 0 THEN Err("NonPositiveCount")
                ELSE UnwrapResult(
                        DrawRuleNew(from_move.value, eval.value, count.value))

-----------------------------------------------------------------------------
(* adjudicate_game, rule_test.rs 319-385                                   *)

\* the locals of adjudicate_game before the first ply
AdjudicateStart ==
    [resign_counts |-> [side \in 0..1 |-> 0],
     draw_count |-> 0,
     total_time |-> 0,
     rule_applied |-> None,
     adjudicated_outcome |-> None]

\* if adjudicated_outcome.is_none()
M_LatchAlwaysOpen(adjudicated) == TRUE
LatchOpen(adjudicated) == adjudicated = None

\* total_time += move_data.time, on every ply
M_TimeOnlyWhileOpen(s, move_data) ==
    IF s.adjudicated_outcome = None THEN s.total_time + move_data.time
    ELSE s.total_time
AddTime(s, move_data) == s.total_time + move_data.time

\* the draw streak counter after this ply
M_DrawNoReset(count, move_data, dr) ==
    IF Abs(move_data.eval) <= dr.eval THEN count + 1 ELSE count
DrawCountAfter(count, move_data, dr) ==
    IF Abs(move_data.eval) <= dr.eval THEN count + 1 ELSE 0

\* (ply0 + 1) / 2 >= from_move && draw_count >= 2 * count
M_DrawFromMoveNumber(p, count, dr) ==
    (p + 2) \div 2 >= dr.from_move /\ count >= 2 * dr.count
M_DrawNotDoubled(p, count, dr) ==
    (p + 1) \div 2 >= dr.from_move /\ count >= dr.count
DrawTriggers(p, count, dr) ==
    (p + 1) \div 2 >= dr.from_move /\ count >= 2 * dr.count

\* the mover's resign streak counter after this ply
M_ResignNoReset(count, move_data, rr) ==
    IF move_data.eval <= -rr.eval THEN count + 1 ELSE count
ResignCountAfter(count, move_data, rr) ==
    IF move_data.eval <= -rr.eval THEN count + 1 ELSE 0

\* resign_counts[ply0 % 2] == resign_rule.count
M_ResignTriggersLate(count, rr) == count = rr.count + 1
ResignTriggers(count, rr) == count = rr.count

\* [0, 10][ply0 % 2]
ResignScore10(p) == IF p % 2 = 0 THEN 0 ELSE 10

\* One iteration of the for loop over game.move_data: s is the locals
\* before ply p, the result the locals after it.
M_NoContinue(s, p, move_data, rr, dr) ==
    LET time == AddTime(s, move_data)
        timed == [s EXCEPT !.total_time = time]
    IN  IF ~LatchOpen(s.adjudicated_outcome) THEN timed
        ELSE
        LET dc == DrawCountAfter(s.draw_count, move_data, dr)
            side == p % 2
            rc == ResignCountAfter(s.resign_counts[side], move_data, rr)
        IN  IF ResignTriggers(rc, rr)
            THEN [timed EXCEPT
                    !.draw_count = dc,
                    !.resign_counts[side] = rc,
                    !.rule_applied = Some("Resign"),
                    !.adjudicated_outcome =
                        Some(GameStats(p + 1, time, ResignScore10(p)))]
            ELSE IF DrawTriggers(p, dc, dr)
            THEN [timed EXCEPT
                    !.draw_count = dc,
                    !.resign_counts[side] = rc,
                    !.rule_applied = Some("Draw"),
                    !.adjudicated_outcome = Some(GameStats(p + 1, time, 5))]
            ELSE [timed EXCEPT
                    !.draw_count = dc,
                    !.resign_counts[side] = rc]
AdjudicateBody(s, p, move_data, rr, dr) ==
    LET time == AddTime(s, move_data)
        timed == [s EXCEPT !.total_time = time]
    IN  IF ~LatchOpen(s.adjudicated_outcome) THEN timed
        ELSE
        LET dc == DrawCountAfter(s.draw_count, move_data, dr)
            side == p % 2
            rc == ResignCountAfter(s.resign_counts[side], move_data, rr)
        IN  IF DrawTriggers(p, dc, dr)
            THEN [timed EXCEPT
                    !.draw_count = dc,
                    !.rule_applied = Some("Draw"),
                    !.adjudicated_outcome = Some(GameStats(p + 1, time, 5))]
            ELSE IF ResignTriggers(rc, rr)
            THEN [timed EXCEPT
                    !.draw_count = dc,
                    !.resign_counts[side] = rc,
                    !.rule_applied = Some("Resign"),
                    !.adjudicated_outcome =
                        Some(GameStats(p + 1, time, ResignScore10(p)))]
            ELSE [timed EXCEPT
                    !.draw_count = dc,
                    !.resign_counts[side] = rc]

\* the AdjudicationOutcome built after the loop
AdjudicationOutcome(s, g) ==
    LET actual_outcome == GameStats(g.len, s.total_time, g.score10)
    IN  [adjudicated |-> IF s.adjudicated_outcome = None
                         THEN actual_outcome
                         ELSE Unwrap(s.adjudicated_outcome),
         rule_applied |-> s.rule_applied,
         actual |-> actual_outcome]

\* the locals of adjudicate_game, as one record
Locals ==
    [resign_counts |-> resign_counts,
     draw_count |-> draw_count,
     total_time |-> total_time,
     rule_applied |-> rule_applied,
     adjudicated_outcome |-> adjudicated_outcome]

\* the for loop processes ply ply0
AdjudicateStep ==
    /\ pc = "loop"
    /\ ply0 < game.len
    /\ LET n == AdjudicateBody(Locals, ply0, MoveAt(game, ply0),
                               resign_rule, draw_rule)
       IN  /\ resign_counts' = n.resign_counts
           /\ draw_count' = n.draw_count
           /\ total_time' = n.total_time
           /\ rule_applied' = n.rule_applied
           /\ adjudicated_outcome' = n.adjudicated_outcome
    /\ ply0' = ply0 + 1
    /\ UNCHANGED <<game, resign_rule, draw_rule, outcome, pc>>
    /\ UNCHANGED <<testVars, parseVars, singleVars, mapVars, mainVars>>

\* the loop is over: build and return the AdjudicationOutcome
AdjudicateReturn ==
    /\ pc = "loop"
    /\ ply0 = game.len
    /\ outcome' = AdjudicationOutcome(Locals, game)
    /\ pc' = "done"
    /\ UNCHANGED <<game, resign_rule, draw_rule, ply0, total_time,
                   resign_counts, draw_count, rule_applied,
                   adjudicated_outcome>>
    /\ UNCHANGED <<testVars, parseVars, singleVars, mapVars, mainVars>>

\* inputs of Spec
Evals == {-3, -2, 0, 2}
TimeOf(eval) == IF eval = -3 THEN 1 ELSE IF eval = -2 THEN 2
                ELSE IF eval = 0 THEN 1 ELSE 3
MoveSet == {MoveData(e, TimeOf(e)) : e \in Evals}
Score10s == {0, 5, 10}
ResignRules == {ResignRuleNew(2, c).value : c \in {1, 2}}
DrawRules == {DrawRuleNew(f, e, c).value : f \in {1, 2}, e \in {1, 2}, c \in {1, 2}}

SeqsUpTo(S, n) == UNION {[1..k -> S] : k \in 0..n}

Games ==
    {GameData(sc, m, Len(m)) : sc \in Score10s, m \in SeqsUpTo(MoveSet, MaxPly)}

AdjInit(g, rr, dr) ==
    /\ game = g
    /\ resign_rule = rr
    /\ draw_rule = dr
    /\ ply0 = 0
    /\ resign_counts = AdjudicateStart.resign_counts
    /\ draw_count = AdjudicateStart.draw_count
    /\ total_time = AdjudicateStart.total_time
    /\ rule_applied = AdjudicateStart.rule_applied
    /\ adjudicated_outcome = AdjudicateStart.adjudicated_outcome
    /\ outcome = None
    /\ pc = "loop"

\* test_rule is not running
TestIdle ==
    /\ games = <<>>
    /\ verbose = FALSE
    /\ index = 0
    /\ acc = None
    /\ stdout = <<>>
    /\ tpc = "idle"

\* main is not running
MainIdle ==
    /\ resign_input = <<>>
    /\ draw_input = <<>>
    /\ stderr = <<>>
    /\ exit_code = None
    /\ main_pc = "idle"

\* CommentParser::parse, map_single_game_data and map_game_data are not
\* running as processes of their own
MapIdle ==
    /\ comment = <<>>
    /\ parsed = None
    /\ raw_game = None
    /\ single_result = None
    /\ raw_games = <<>>
    /\ mindex = 0
    /\ result = <<>>
    /\ map_result = None
    /\ mpc = "idle"

\* adjudicate_game is not running as a process of its own
AdjIdle ==
    /\ game = None
    /\ ply0 = 0
    /\ resign_counts = AdjudicateStart.resign_counts
    /\ draw_count = AdjudicateStart.draw_count
    /\ total_time = AdjudicateStart.total_time
    /\ rule_applied = AdjudicateStart.rule_applied
    /\ adjudicated_outcome = AdjudicateStart.adjudicated_outcome
    /\ outcome = None
    /\ pc = "idle"

Init ==
    /\ \E g \in Games, rr \in ResignRules, dr \in DrawRules : AdjInit(g, rr, dr)
    /\ TestIdle
    /\ MapIdle
    /\ MainIdle

Next == AdjudicateStep \/ AdjudicateReturn

Spec == Init /\ [][Next]_vars


-----------------------------------------------------------------------------
(* What the rules say about a game, read from the game's moves alone        *)

RECURSIVE SumTimes(_, _)
\* the time of plies 0 .. n-1
SumTimes(g, n) == IF n <= 0 THEN 0 ELSE SumTimes(g, n - 1) + MoveAt(g, n - 1).time

RECURSIVE DrawStreak(_, _, _)
\* consecutive plies, of either side, ending at p with |eval| <= draw.eval
DrawStreak(g, p, dr) ==
    IF p < 0 \/ Abs(MoveAt(g, p).eval) > dr.eval THEN 0
    ELSE 1 + DrawStreak(g, p - 1, dr)

RECURSIVE ResignStreak(_, _, _)
\* consecutive own moves p, p-2, ... of the mover with eval <= -resign.eval
ResignStreak(g, p, rr) ==
    IF p < 0 \/ MoveAt(g, p).eval > -rr.eval THEN 0
    ELSE 1 + ResignStreak(g, p - 2, rr)

DrawCond(g, p, dr) ==
    (p + 1) \div 2 >= dr.from_move /\ DrawStreak(g, p, dr) >= 2 * dr.count

ResignCond(g, p, rr) == ResignStreak(g, p, rr) >= rr.count

\* the plies below n at which either rule's trigger condition is reached
TriggerPlies(g, rr, dr, n) ==
    {p \in 0..(n - 1) : DrawCond(g, p, dr) \/ ResignCond(g, p, rr)}

MinOf(S) == CHOOSE x \in S : \A y \in S : x <= y

\* a rule has fired at some ply below p / the draw rule has fired at ply p
FiredBefore(p) ==
    adjudicated_outcome # None /\ Unwrap(adjudicated_outcome).length <= p
DrawFiredAt(p) ==
    rule_applied = Some("Draw") /\ Unwrap(adjudicated_outcome).length = p + 1

-----------------------------------------------------------------------------
(* C1  At most one rule is applied per game: once a rule has fired, no     *)
(* later ply changes rule_applied or the adjudicated outcome, and what is  *)
(* recorded (and returned) is the outcome of the first ply at which either *)
(* rule's trigger condition is reached.                                    *)

C1_FirstTriggerWins ==
    LET T == TriggerPlies(game, resign_rule, draw_rule, ply0)
    IN  IF T = {}
        THEN /\ adjudicated_outcome = None
             /\ rule_applied = None
             /\ pc = "done" => outcome.rule_applied = None
        ELSE LET p == MinOf(T)
                 first == GameStats(p + 1, SumTimes(game, p + 1),
                             IF DrawCond(game, p, draw_rule) THEN 5
                             ELSE IF p % 2 = 0 THEN 0 ELSE 10)
                 rule == IF DrawCond(game, p, draw_rule) THEN "Draw" ELSE "Resign"
             IN  /\ adjudicated_outcome = Some(first)
                 /\ rule_applied = Some(rule)
                 /\ pc = "done" => /\ outcome.adjudicated = first
                                   /\ outcome.rule_applied = Some(rule)

C1_LatchFrozen ==
    adjudicated_outcome # None =>
        /\ adjudicated_outcome' = adjudicated_outcome
        /\ rule_applied' = rule_applied

C1_AtMostOneRule == [](C1_FirstTriggerWins) /\ [][C1_LatchFrozen]_vars

\* a game whose first trigger is followed by a later ply that reaches a
\* trigger condition of the other rule, after the game was returned
C1_Witness ==
    /\ pc = "done"
    /\ outcome.rule_applied # None
    /\ \E p, q \in TriggerPlies(game, resign_rule, draw_rule, game.len) :
          /\ p < q
          /\ DrawCond(game, p, draw_rule) # DrawCond(game, q, draw_rule)

-----------------------------------------------------------------------------
(* C2  For every returned outcome adjudicated.time <= actual.time and      *)
(* adjudicated.length <= actual.length, where actual.length is the number  *)
(* of plies, actual.time the sum of all move times (also those after a     *)
(* rule fired) and actual.score10 the game's score10.                      *)

C2_Monotonic ==
    pc = "done" =>
        /\ outcome.adjudicated.time <= outcome.actual.time
        /\ outcome.adjudicated.length <= outcome.actual.length
        /\ outcome.actual.length = game.len
        /\ outcome.actual.time = SumTimes(game, game.len)
        /\ outcome.actual.score10 = game.score10

\* a rule fired strictly before the end of the game
C2_Witness ==
    /\ pc = "done"
    /\ outcome.rule_applied # None
    /\ outcome.adjudicated.length < outcome.actual.length
    /\ outcome.adjudicated.time < outcome.actual.time

-----------------------------------------------------------------------------
(* C3  Resign rule: if no rule has fired before ply p and the draw rule    *)
(* does not fire at p, Resign is reported at p exactly when the mover's    *)
(* last resign.count own moves (p, p-2, ...) all have eval <=              *)
(* -resign.eval; the outcome is length p+1, the time of plies 0..p and     *)
(* score10 0 for side 0, 10 for side 1.                                    *)

C3_ResignAt(p) ==
    /\ rule_applied = Some("Resign")
    /\ adjudicated_outcome =
          Some(GameStats(p + 1, SumTimes(game, p + 1),
                         IF p % 2 = 0 THEN 0 ELSE 10))

C3_ResignResult ==
    /\ \A p \in 0..(ply0 - 1) :
          (~FiredBefore(p) /\ ~DrawFiredAt(p)) =>
              (ResignCond(game, p, resign_rule) <=> C3_ResignAt(p))
    /\ rule_applied = Some("Resign") =>
          \E p \in 0..(ply0 - 1) : C3_ResignAt(p)
    /\ (pc = "done" /\ rule_applied = Some("Resign")) =>
          /\ outcome.rule_applied = Some("Resign")
          /\ outcome.adjudicated = Unwrap(adjudicated_outcome)

\* side 1 resigned after a streak of two own moves, with side 0's streak
\* broken in between
C3_Witness ==
    /\ pc = "done"
    /\ outcome.rule_applied = Some("Resign")
    /\ outcome.adjudicated.score10 = 10
    /\ resign_rule.count = 2
    /\ resign_counts[0] = 0

-----------------------------------------------------------------------------
(* C4  Draw rule: if no rule has fired before ply p, Draw is reported at p *)
(* exactly when floor((p+1)/2) >= draw.from_move and the streak of plies   *)
(* with |eval| <= draw.eval ending at p is at least 2 * draw.count; the    *)
(* outcome is length p+1, the time of plies 0..p and score10 5.            *)

C4_DrawAt(p) ==
    /\ rule_applied = Some("Draw")
    /\ adjudicated_outcome = Some(GameStats(p + 1, SumTimes(game, p + 1), 5))

C4_DrawResult ==
    /\ \A p \in 0..(ply0 - 1) :
          ~FiredBefore(p) =>
              /\ DrawCond(game, p, draw_rule) <=> C4_DrawAt(p)
              /\ DrawStreak(game, p, draw_rule) < 2 * draw_rule.count
                    => ~DrawFiredAt(p)
    /\ rule_applied = Some("Draw") =>
          \E p \in 0..(ply0 - 1) : C4_DrawAt(p)
    /\ (pc = "done" /\ rule_applied = Some("Draw")) =>
          /\ outcome.rule_applied = Some("Draw")
          /\ outcome.adjudicated = Unwrap(adjudicated_outcome)

\* a draw reported with draw.count = 2, after a streak of 2..3 plies had
\* passed without the rule firing
C4_Witness ==
    /\ pc = "done"
    /\ outcome.rule_applied = Some("Draw")
    /\ draw_rule.count = 2
    /\ draw_rule.from_move = 1
    /\ outcome.adjudicated.length = 4

-----------------------------------------------------------------------------
(* adjudicate_game under the rules "none" / "none"                          *)

\* Games long enough for the counts of the "none" rules: every ply mated
\* (eval -10000, as "-M5/9 0.001s" parses), or every ply dead level.
NoneGames ==
    LET rr == ParseResignRule(StrNone).value
        dr == ParseDrawRule(StrNone).value
    IN  {GameData(10, <<MoveData(-10000, 1), MoveData(10000, 1)>>, 2 * rr.count),
         GameData(10, <<MoveData(0, 1)>>, 2 * dr.count + 1),
         GameData(5, <<MoveData(-10000, 1), MoveData(0, 1)>>, 2 * rr.count - 2)}

InitNone ==
    /\ \E g \in NoneGames :
          AdjInit(g, ParseResignRule(StrNone).value, ParseDrawRule(StrNone).value)
    /\ TestIdle
    /\ MapIdle
    /\ MainIdle

SpecNone == InitNone /\ [][Next]_vars

(* C5  Disabled rules never apply: under the "none" sentinels every game   *)
(* is returned with rule_applied = None and adjudicated equal to actual.   *)

C5_DisabledNeverApply ==
    pc = "done" =>
        /\ outcome.rule_applied = None
        /\ outcome.adjudicated = outcome.actual

-----------------------------------------------------------------------------
(* test_rule, rule_test.rs 214-317, and the metrics of an outcome, 398-413 *)

RECURSIVE AdjudicateLoop(_, _, _, _, _)
\* the for loop of adjudicate_game from ply p on
AdjudicateLoop(s, p, g, rr, dr) ==
    IF p >= g.len THEN s
    ELSE AdjudicateLoop(AdjudicateBody(s, p, MoveAt(g, p), rr, dr),
                        p + 1, g, rr, dr)

\* adjudicate_game(game, resign_rule, draw_rule)
AdjudicateGame(g, rr, dr) ==
    AdjudicationOutcome(AdjudicateLoop(AdjudicateStart, 0, g, rr, dr), g)

CorrectlyAdjudicated(o) == o.actual.score10 = o.adjudicated.score10

\* adjudication only stops a game early, so the difference the code takes
\* in i32 and casts to u32 is the plain difference
M_TimeSavedAlways(o) == o.actual.time - o.adjudicated.time
TimeSaved(o) ==
    IF CorrectlyAdjudicated(o) THEN o.actual.time - o.adjudicated.time ELSE 0

SquaredError10(o) ==
    (o.actual.score10 - o.adjudicated.score10)
        * (o.actual.score10 - o.adjudicated.score10)

BoolAsU32(b) == IF b THEN 1 ELSE 0

\* the accumulators of test_rule before the first game
TestRuleStart ==
    [actual_time |-> 0, adjudicated_time |-> 0,
     resign_num |-> 0, resign_num_wrong |-> 0,
     resign_time_saved |-> 0, resign_squared_error10 |-> 0,
     draw_num |-> 0, draw_num_wrong |-> 0,
     draw_time_saved |-> 0, draw_squared_error10 |-> 0]

\* the accumulators after one more outcome
M_FoldTimeOfDecidedOnly(a, o) ==
    LET b == IF o.rule_applied = Some("Resign")
             THEN [a EXCEPT
                    !.resign_num = @ + 1,
                    !.resign_num_wrong = @ + BoolAsU32(~CorrectlyAdjudicated(o)),
                    !.resign_time_saved = @ + TimeSaved(o),
                    !.resign_squared_error10 = @ + SquaredError10(o)]
             ELSE IF o.rule_applied = Some("Draw")
             THEN [a EXCEPT
                    !.draw_num = @ + 1,
                    !.draw_num_wrong = @ + BoolAsU32(~CorrectlyAdjudicated(o)),
                    !.draw_time_saved = @ + TimeSaved(o),
                    !.draw_squared_error10 = @ + SquaredError10(o)]
             ELSE a
    IN  IF o.rule_applied = None THEN b
        ELSE [b EXCEPT !.actual_time = @ + o.actual.time,
                       !.adjudicated_time = @ + o.adjudicated.time]
TestRuleFold(a, o) ==
    LET b == IF o.rule_applied = Some("Resign")
             THEN [a EXCEPT
                    !.resign_num = @ + 1,
                    !.resign_num_wrong = @ + BoolAsU32(~CorrectlyAdjudicated(o)),
                    !.resign_time_saved = @ + TimeSaved(o),
                    !.resign_squared_error10 = @ + SquaredError10(o)]
             ELSE IF o.rule_applied = Some("Draw")
             THEN [a EXCEPT
                    !.draw_num = @ + 1,
                    !.draw_num_wrong = @ + BoolAsU32(~CorrectlyAdjudicated(o)),
                    !.draw_time_saved = @ + TimeSaved(o),
                    !.draw_squared_error10 = @ + SquaredError10(o)]
             ELSE a
    IN  [b EXCEPT !.actual_time = @ + o.actual.time,
                  !.adjudicated_time = @ + o.adjudicated.time]

\* the line printed for game i (0-based) when verbose
VerboseLine(i, o) ==
    [game |-> i + 1,
     actual |-> o.actual,
     rule_applied |-> IF o.rule_applied = Some("Resign") THEN "R"
                      ELSE IF o.rule_applied = Some("Draw") THEN "D" ELSE "-",
     adjudicated |-> o.adjudicated]

\* format_time: H:MM:SS.mmm
FormatTime(milliseconds) ==
    [h |-> ((milliseconds \div 1000) \div 60) \div 60,
     m |-> ((milliseconds \div 1000) \div 60) % 60,
     s |-> (milliseconds \div 1000) % 60,
     ms |-> milliseconds % 1000]

\* a quotient taken in f64, kept as numerator and denominator
Quotient(num, den) == [num |-> num, den |-> den]

\* the summary printed after the loop
Mse(a, n) == Quotient(a.resign_squared_error10 + a.draw_squared_error10, 100 * n)

Summary(a, n) ==
    [games |-> n,
     adjudicated_num |-> a.resign_num + a.draw_num,
     adjudicated_num_wrong |-> a.resign_num_wrong + a.draw_num_wrong,
     resign_num |-> a.resign_num,
     resign_num_wrong |-> a.resign_num_wrong,
     draw_num |-> a.draw_num,
     draw_num_wrong |-> a.draw_num_wrong,
     total_time |-> FormatTime(a.actual_time),
     after_adjudication |-> FormatTime(a.adjudicated_time),
     time_saved |-> FormatTime(a.resign_time_saved + a.draw_time_saved),
     resign_time_saved |-> FormatTime(a.resign_time_saved),
     draw_time_saved |-> FormatTime(a.draw_time_saved),
     mse |-> Mse(a, n),
     resign_mse |-> Quotient(a.resign_squared_error10, 100 * n),
     draw_mse |-> Quotient(a.draw_squared_error10, 100 * n)]

\* test_rule is entered: the accumulators are zeroed, the header printed
TestRuleInit(gs, rr, dr, v) ==
    /\ games = gs
    /\ resign_rule = rr
    /\ draw_rule = dr
    /\ verbose = v
    /\ index = 0
    /\ acc = TestRuleStart
    /\ stdout = IF v THEN <<"header">> ELSE <<>>
    /\ tpc = "loop"

\* the for loop adjudicates games[index] and folds its outcome
TestRuleStep ==
    /\ tpc = "loop"
    /\ index < Len(games)
    /\ LET o == AdjudicateGame(games[index + 1], resign_rule, draw_rule)
       IN  /\ acc' = TestRuleFold(acc, o)
           /\ stdout' = IF verbose THEN Append(stdout, VerboseLine(index, o))
                        ELSE stdout
    /\ index' = index + 1
    /\ UNCHANGED <<games, verbose, tpc>>
    /\ UNCHANGED <<game, resign_rule, draw_rule, ply0, total_time,
                   resign_counts, draw_count, rule_applied,
                   adjudicated_outcome, outcome, pc>>
    /\ UNCHANGED <<parseVars, singleVars, mapVars, mainVars>>

\* the loop is over: the summary is printed
TestRuleReport ==
    /\ tpc = "loop"
    /\ index = Len(games)
    /\ stdout' = Append(stdout, Summary(acc, Len(games)))
    /\ tpc' = "done"
    /\ UNCHANGED <<games, verbose, index, acc>>
    /\ UNCHANGED <<game, resign_rule, draw_rule, ply0, total_time,
                   resign_counts, draw_count, rule_applied,
                   adjudicated_outcome, outcome, pc>>
    /\ UNCHANGED <<parseVars, singleVars, mapVars, mainVars>>

\* longest batch of games handed to test_rule in SpecTest
MaxGames == 3

\* inputs of SpecTest: games that end decided rightly, decided wrongly and
\* undecided under TestResignRule / TestDrawRule
TestMoves ==
    {<<MoveData(-3, 1)>>,
     <<MoveData(2, 3), MoveData(-3, 1), MoveData(0, 1)>>,
     <<MoveData(0, 1), MoveData(0, 1), MoveData(2, 3)>>,
     <<MoveData(2, 3), MoveData(2, 3)>>}
TestGames == {GameData(sc, m, Len(m)) : sc \in Score10s, m \in TestMoves}
TestResignRule == ResignRuleNew(2, 1).value
TestDrawRule == DrawRuleNew(1, 1, 1).value

InitTest ==
    /\ \E gs \in SeqsUpTo(TestGames, MaxGames), v \in BOOLEAN :
          TestRuleInit(gs, TestResignRule, TestDrawRule, v)
    /\ AdjIdle
    /\ MapIdle
    /\ MainIdle

NextTest == TestRuleStep \/ TestRuleReport

SpecTest == InitTest /\ [][NextTest]_vars

-----------------------------------------------------------------------------
(* C9  Aggregate reproducibility: after test_rule has folded any sequence  *)
(* of games, each category's trigger count, wrong count, summed time_saved *)
(* and summed squared_error10 equal the values recomputed from the         *)
(* per-game outcomes with that rule_applied; the totals of actual.time and *)
(* adjudicated.time are sums over all games; the overall squared-error sum *)
(* is the sum over all games; every MSE has the total game count as        *)
(* denominator.                                                            *)

\* the outcome of game i (1-based) of the batch
OutcomeOf(i) == AdjudicateGame(games[i], resign_rule, draw_rule)

\* the games folded so far that ended with the given rule_applied
FoldedWith(rule) == {i \in 1..index : OutcomeOf(i).rule_applied = rule}

RECURSIVE SumOver(_, _)
SumOver(I, f) ==
    IF I = {} THEN 0
    ELSE LET i == CHOOSE j \in I : TRUE IN f[i] + SumOver(I \ {i}, f)

C9_Wrong == [i \in 1..Len(games) |->
    IF OutcomeOf(i).actual.score10 # OutcomeOf(i).adjudicated.score10 THEN 1 ELSE 0]
C9_Saved == [i \in 1..Len(games) |->
    IF OutcomeOf(i).actual.score10 = OutcomeOf(i).adjudicated.score10
    THEN OutcomeOf(i).actual.time - OutcomeOf(i).adjudicated.time ELSE 0]
C9_Error == [i \in 1..Len(games) |->
    (OutcomeOf(i).actual.score10 - OutcomeOf(i).adjudicated.score10)
        * (OutcomeOf(i).actual.score10 - OutcomeOf(i).adjudicated.score10)]
C9_ActualTime == [i \in 1..Len(games) |-> OutcomeOf(i).actual.time]
C9_AdjudicatedTime == [i \in 1..Len(games) |-> OutcomeOf(i).adjudicated.time]

C9_AggregateReproducible ==
    tpc \in {"loop", "done"} =>
    LET R == FoldedWith(Some("Resign"))
        D == FoldedWith(Some("Draw"))
        All == 1..index
    IN  /\ acc.resign_num = Cardinality(R)
        /\ acc.resign_num_wrong = SumOver(R, C9_Wrong)
        /\ acc.resign_time_saved = SumOver(R, C9_Saved)
        /\ acc.resign_squared_error10 = SumOver(R, C9_Error)
        /\ acc.draw_num = Cardinality(D)
        /\ acc.draw_num_wrong = SumOver(D, C9_Wrong)
        /\ acc.draw_time_saved = SumOver(D, C9_Saved)
        /\ acc.draw_squared_error10 = SumOver(D, C9_Error)
        /\ acc.actual_time = SumOver(All, C9_ActualTime)
        /\ acc.adjudicated_time = SumOver(All, C9_AdjudicatedTime)
        /\ acc.resign_squared_error10 + acc.draw_squared_error10
              = SumOver(All, C9_Error)
        /\ tpc = "done" =>
              LET report == stdout[Len(stdout)]
                  n == Len(games)
              IN  /\ index = n
                  /\ report.games = n
                  /\ report.mse = Quotient(SumOver(All, C9_Error), 100 * n)
                  /\ report.resign_mse = Quotient(SumOver(R, C9_Error), 100 * n)
                  /\ report.draw_mse = Quotient(SumOver(D, C9_Error), 100 * n)
                  /\ report.resign_num = Cardinality(R)
                  /\ report.draw_num = Cardinality(D)
                  /\ verbose =>
                        \A i \in 1..n :
                            /\ stdout[i + 1].actual = OutcomeOf(i).actual
                            /\ stdout[i + 1].adjudicated = OutcomeOf(i).adjudicated

\* a reported batch with a resigned, a drawn and an undecided game, one
\* of the decided games wrongly adjudicated, and time saved
C9_Witness ==
    /\ tpc = "done"
    /\ acc.resign_num >= 1
    /\ acc.draw_num >= 1
    /\ acc.resign_num + acc.draw_num < Len(games)
    /\ acc.resign_num_wrong + acc.draw_num_wrong >= 1
    /\ acc.resign_time_saved + acc.draw_time_saved > 0
    /\ acc.adjudicated_time < acc.actual_time

-----------------------------------------------------------------------------
(* CommentParser, game_data.rs 77-152                                      *)
(* The regular expression, anchored at the start of the comment:           *)
(*   ^(?P<sign>(-|\+)?)                                                    *)
(*   ((?P<mate>M\d+)|((?P<eval>\d+)(\.(?P<eval_dec>\d{2}))))               *)
(*   /\d+\s                                                                *)
(*   ((?P<time>\d+)(\.(?P<time_dec>\d{1,3}))?s)                            *)

\* the character at i (1-based), "" past the end
At(s, i) == IF i >= 1 /\ i <= Len(s) THEN s[i] ELSE ""

RECURSIVE DigitsEnd(_, _)
\* \d+ from i: the index just past the run of digits that starts at i
DigitsEnd(s, i) == IF At(s, i) \in Digits THEN DigitsEnd(s, i + 1) ELSE i

\* \s
Whitespace == {" ", "\t", "\n"}

\* The match is followed left to right, one operator per piece of the
\* expression; groups holds the named groups matched so far (None where
\* a group takes no part in the match).

\* (?P<time_dec>\d{1,3}) from t2 + 1 to f2, then s
CapturesTimeDec(s, t1, t2, f2, groups) ==
    IF f2 - (t2 + 1) \in 1..3 /\ At(s, f2) = "s"
    THEN Some([sign |-> groups.sign, mate |-> groups.mate,
               eval |-> groups.eval, eval_dec |-> groups.eval_dec,
               time |-> SubSeq(s, t1, t2 - 1),
               time_dec |-> Some(SubSeq(s, t2 + 1, f2 - 1))])
    ELSE None

\* (?P<time>\d+) from t1 to t2, then the optional fraction, then s
CapturesTime(s, t1, t2, groups) ==
    IF t2 = t1 THEN None
    ELSE IF At(s, t2) = "."
    THEN CapturesTimeDec(s, t1, t2, DigitsEnd(s, t2 + 1), groups)
    ELSE IF At(s, t2) = "s"
    THEN Some([sign |-> groups.sign, mate |-> groups.mate,
               eval |-> groups.eval, eval_dec |-> groups.eval_dec,
               time |-> SubSeq(s, t1, t2 - 1),
               time_dec |-> None])
    ELSE None

\* /\d+\s from i2, the digits ending at d2
CapturesDepth(s, i2, d2, groups) ==
    IF At(s, i2) = "/" /\ d2 > i2 + 1 /\ At(s, d2) \in Whitespace
    THEN CapturesTime(s, d2 + 1, DigitsEnd(s, d2 + 1), groups)
    ELSE None

\* (?P<mate>M\d+) from i1, the digits ending at m2
CapturesMate(s, i1, m2) ==
    IF m2 > i1 + 1
    THEN CapturesDepth(s, m2, DigitsEnd(s, m2 + 1),
            [sign |-> SubSeq(s, 1, i1 - 1),
             mate |-> Some(SubSeq(s, i1, m2 - 1)),
             eval |-> None, eval_dec |-> None])
    ELSE None

\* (?P<eval>\d+)(\.(?P<eval_dec>\d{2})) from i1, the digits ending at e2
CapturesEval(s, i1, e2) ==
    IF /\ e2 > i1
       /\ At(s, e2) = "."
       /\ At(s, e2 + 1) \in Digits
       /\ At(s, e2 + 2) \in Digits
    THEN CapturesDepth(s, e2 + 3, DigitsEnd(s, e2 + 4),
            [sign |-> SubSeq(s, 1, i1 - 1),
             mate |-> None,
             eval |-> Some(SubSeq(s, i1, e2 - 1)),
             eval_dec |-> Some(SubSeq(s, e2 + 1, e2 + 2))])
    ELSE None

\* the alternative after the sign, which ends before i1
CapturesAfterSign(s, i1) ==
    IF At(s, i1) = "M" THEN CapturesMate(s, i1, DigitsEnd(s, i1 + 1))
    ELSE CapturesEval(s, i1, DigitsEnd(s, i1))

\* re.captures(comment): None, or the named groups
Captures(s) == CapturesAfterSign(s, IF At(s, 1) \in {"-", "+"} THEN 2 ELSE 1)

\* the magnitude a mate marker stands for
MateValue(mate) == 10000

\* get_eval
GetEval(captures) ==
    LET mate == IF captures.mate = None \/ captures.mate = Some(<<>>) THEN 0
                ELSE MateValue(Unwrap(captures.mate))
        eval == IF captures.eval = None \/ captures.eval = Some(<<>>) THEN 0
                ELSE 100 * ParseI32(Unwrap(captures.eval)).value
        eval_dec == IF captures.eval_dec = None \/ captures.eval_dec = Some(<<>>)
                    THEN 0
                    ELSE ParseI32(Unwrap(captures.eval_dec)).value
        sign == IF captures.sign = <<"-">> THEN -1 ELSE 1
    IN  (mate + eval + eval_dec) * sign

RECURSIVE Pow10(_)
\* 10u32.pow(n)
Pow10(n) == IF n <= 0 THEN 1 ELSE 10 * Pow10(n - 1)

\* the weight of a time_dec of len digits, in milliseconds
M_TimeDecUnscaled(len) == 1
TimeDecScale(len) == Pow10(3 - len)

\* get_time
GetTime(captures) ==
    LET time == 1000 * ParseU32(captures.time).value
        time_dec == IF captures.time_dec = None \/ captures.time_dec = Some(<<>>)
                    THEN 0
                    ELSE TimeDecScale(Len(Unwrap(captures.time_dec)))
                            * ParseU32(Unwrap(captures.time_dec)).value
    IN  time + time_dec

\* the rest of parse, given what re.captures returned
ParseCaptures(captures_opt) ==
    IF captures_opt = None THEN Err("()")
    ELSE Ok(MoveData(GetEval(Unwrap(captures_opt)),
                     GetTime(Unwrap(captures_opt))))

\* CommentParser::parse(comment)
CommentParse(s) == ParseCaptures(Captures(s))

-----------------------------------------------------------------------------
(* Comments: the annotation grammar written out, and strings outside it    *)

DigitChar(d) ==
    CASE d = 0 -> "0" [] d = 1 -> "1" [] d = 2 -> "2" [] d = 3 -> "3"
      [] d = 4 -> "4" [] d = 5 -> "5" [] d = 6 -> "6" [] d = 7 -> "7"
      [] d = 8 -> "8" [] d = 9 -> "9"

RECURSIVE ToDigits(_, _)
\* n in decimal, zero-padded to at least width digits
ToDigits(n, width) ==
    IF n < 10 /\ width <= 1 THEN <<DigitChar(n)>>
    ELSE Append(ToDigits(n \div 10, width - 1), DigitChar(n % 10))

\* A comment of the grammar: sign, a mate marker of some depth or an
\* evaluation of int_part pawns and fraction hundredths, the search depth,
\* whole seconds, a fraction of a second of time_dec.len digits (0: none)
\* and value time_dec.f, and whatever follows the final "s".
Signs == {<<>>, <<"-">>, <<"+">>}
TimeDecs ==
    {[len |-> 0, f |-> 0], [len |-> 1, f |-> 2], [len |-> 2, f |-> 45],
     [len |-> 2, f |-> 5], [len |-> 3, f |-> 31], [len |-> 3, f |-> 20]}
Trailings == {<<>>, <<" ", "x">>}
Shapes ==
    [sign : Signs, mate : {None, Some(1), Some(17)}, int_part : {0},
     fraction : {0}, depth : {13}, seconds : {0, 12},
     time_dec : TimeDecs, trailing : Trailings]
    \cup
    [sign : Signs, mate : {None}, int_part : {0, 1, 12},
     fraction : {0, 5, 91}, depth : {13}, seconds : {0, 12},
     time_dec : TimeDecs, trailing : Trailings]

Format(sh) ==
    sh.sign
    \o (IF sh.mate # None THEN <<"M">> \o ToDigits(Unwrap(sh.mate), 1)
        ELSE ToDigits(sh.int_part, 1) \o <<".">> \o ToDigits(sh.fraction, 2))
    \o <<"/">> \o ToDigits(sh.depth, 1) \o <<" ">>
    \o ToDigits(sh.seconds, 1)
    \o (IF sh.time_dec.len = 0 THEN <<>>
        ELSE <<".">> \o ToDigits(sh.time_dec.f, sh.time_dec.len))
    \o <<"s">> \o sh.trailing

GoodComments == {Format(sh) : sh \in Shapes}

\* strings that leave the grammar
BadComments ==
    {<<"1", ".", "9", "/", "1", "3", " ", "0", ".", "0", "3", "1", "s">>,
     <<"1", ".", "9", "1", "2", "/", "1", "3", " ", "0", ".", "0", "3", "1", "s">>,
     <<"-", "1", ".", "9", "1", " ", "1", "3", " ", "0", ".", "0", "3", "1", "s">>,
     <<"-", "1", ".", "9", "1", "/", "1", "3", " ", "0", ".", "0", "3", "1">>,
     <<"-", "1", ".", "9", "1", "/", "1", "3", " ", "0", ".", "0", "3", "1", "2", "s">>,
     <<"M", "/", "1", "3", " ", "1", "s">>,
     <<" ", "1", ".", "9", "1", "/", "1", "3", " ", "1", "s">>,
     <<"1", ".", "9", "1", "/", "1", "3", " ", " ", "1", "s">>,
     <<"-", "-", "1", ".", "9", "1", "/", "1", "3", " ", "1", "s">>,
     <<"x">>,
     <<>>,
     <<"1", ".", "9", "1", "/", "1", "3", " ", ".", "5", "s">>,
     <<"1", ".", "9", "1", "/", " ", "1", "s">>,
     <<"-", "1", ".", "9", "1", "/", "1", "3", " ", "1", ".", "s">>}

Comments == GoodComments \cup BadComments

\* CommentParser::parse is called on a comment
InitParse ==
    /\ comment \in Comments
    /\ parsed = None
    /\ raw_game = None
    /\ single_result = None
    /\ raw_games = <<>>
    /\ mindex = 0
    /\ result = <<>>
    /\ map_result = None
    /\ mpc = "idle"
    /\ AdjIdle
    /\ TestIdle
    /\ MainIdle
    /\ resign_rule = None
    /\ draw_rule = None

ParseComment ==
    /\ parsed = None
    /\ parsed' = Some(CommentParse(comment))
    /\ UNCHANGED <<comment, singleVars, mapVars, adjVars, testVars, mainVars>>

NextParse == ParseComment

SpecParse == InitParse /\ [][NextParse]_vars

(* C8  Annotation scaling: for every comment of the grammar, parse returns *)
(* eval = s * m with s = -1 for the sign '-' and +1 otherwise, m = 10000   *)
(* for a mate marker (whatever its depth) and int_part * 100 + fraction    *)
(* otherwise; and time = seconds * 1000 + f * 10^(3-L) for a fractional    *)
(* part of L digits and value f, seconds * 1000 without one.               *)

C8_Eval(sh) ==
    (IF sh.sign = <<"-">> THEN -1 ELSE 1)
        * (IF sh.mate # None THEN 10000 ELSE sh.int_part * 100 + sh.fraction)

C8_Time(sh) ==
    sh.seconds * 1000
        + (CASE sh.time_dec.len = 0 -> 0
             [] sh.time_dec.len = 1 -> sh.time_dec.f * 100
             [] sh.time_dec.len = 2 -> sh.time_dec.f * 10
             [] sh.time_dec.len = 3 -> sh.time_dec.f)

C8_AnnotationScaling ==
    parsed # None =>
        \A sh \in Shapes :
            Format(sh) = comment =>
                /\ IsOk(Unwrap(parsed))
                /\ Unwrap(parsed).value.eval = C8_Eval(sh)
                /\ Unwrap(parsed).value.time = C8_Time(sh)

\* "-M17/13 12.2s x" was parsed: a mate marker, a sign, one fractional
\* digit of time
C8_Witness ==
    /\ parsed # None
    /\ IsOk(Unwrap(parsed))
    /\ \E sh \in Shapes :
          /\ Format(sh) = comment
          /\ sh.sign = <<"-">>
          /\ sh.mate = Some(17)
          /\ sh.seconds = 12
          /\ sh.time_dec.len = 1
          /\ sh.trailing # <<>>
          /\ Unwrap(parsed).value = MoveData(-10000, 12200)

-----------------------------------------------------------------------------
(* map_single_game_data and map_game_data, game_data.rs 5-75               *)

\* chess_pgn_parser::Game: a termination and the moves, each with an
\* optional comment
RawGame(termination, comments) ==
    [termination |-> termination,
     moves |-> [i \in 1..Len(comments) |-> [comment |-> comments[i]]]]

Terminations == {"WhiteWins", "DrawnGame", "BlackWins", "Unknown"}

\* GameError
UnknownGameTermination == [type |-> "UnknownGameTermination"]
MissingComment(ply) == [type |-> "MissingComment", ply |-> ply]
BadComment(ply) == [type |-> "BadComment", ply |-> ply]

\* the ply reported for an absent comment / for a comment that fails to parse
MissingCommentPly(ply) == ply
M_BadCommentPlyZeroBased(ply) == ply
BadCommentPly(ply) == ply + 1

RECURSIVE MapMoves(_, _, _)

\* the match on the result of parsing the comment of ply
MapMove(moves, ply, move_data_vec, r) ==
    IF IsOk(r) THEN MapMoves(moves, ply + 1, Append(move_data_vec, r.value))
    ELSE Err(BadComment(BadCommentPly(ply)))

\* the for loop over game.moves from ply on
MapMoves(moves, ply, move_data_vec) ==
    IF ply >= Len(moves) THEN Ok(move_data_vec)
    ELSE IF moves[ply + 1].comment = None
    THEN Err(MissingComment(MissingCommentPly(ply)))
    ELSE MapMove(moves, ply, move_data_vec,
                 CommentParse(Unwrap(moves[ply + 1].comment)))

\* Ok(GameData { score10, move_data }), or the error of the loop
MapSingleResult(score10, mapped) ==
    IF IsOk(mapped) THEN Ok(GameData(score10, mapped.value, Len(mapped.value)))
    ELSE mapped

\* map_single_game_data(game, comment_parser)
MapSingleGameData(g) ==
    IF g.termination = "Unknown" THEN Err(UnknownGameTermination)
    ELSE MapSingleResult(
            CASE g.termination = "WhiteWins" -> 10
              [] g.termination = "DrawnGame" -> 5
              [] g.termination = "BlackWins" -> 0,
            MapMoves(g.moves, 0, <<>>))

\* game_number: (index + 1) as u32
M_GameNumberZeroBased(i) == i
GameNumber(i) == i + 1

\* the for loop inspects games[mindex]
MapGameStep ==
    /\ mpc = "loop"
    /\ mindex < Len(raw_games)
    /\ LET r == MapSingleGameData(raw_games[mindex + 1])
       IN  IF IsOk(r)
           THEN /\ result' = Append(result, r.value)
                /\ mindex' = mindex + 1
                /\ UNCHANGED <<map_result, mpc>>
           ELSE /\ map_result' = Some(Err([game_number |-> GameNumber(mindex),
                                           error |-> r.value]))
                /\ mpc' = "done"
                /\ UNCHANGED <<result, mindex>>
    /\ UNCHANGED <<raw_games, parseVars, singleVars, adjVars, testVars, mainVars>>

\* the loop is over: Ok(result)
MapGameReturn ==
    /\ mpc = "loop"
    /\ mindex = Len(raw_games)
    /\ map_result' = Some(Ok(result))
    /\ mpc' = "done"
    /\ UNCHANGED <<raw_games, mindex, result>>
    /\ UNCHANGED <<parseVars, singleVars, adjVars, testVars, mainVars>>

\* map_single_game_data is called on raw_game
MapSingleCall ==
    /\ raw_game # None
    /\ single_result = None
    /\ single_result' = Some(MapSingleGameData(Unwrap(raw_game)))
    /\ UNCHANGED <<raw_game, parseVars, mapVars, adjVars, testVars, mainVars>>

\* longest raw game (in plies) handed to map_single_game_data
MaxRawPly == 3
\* longest batch of raw games handed to map_game_data
MaxBatch == 3

\* "-1.91/13 0.031s" and "+M17/13 12.2s x"
SampleGood ==
    {Format([sign |-> <<"-">>, mate |-> None, int_part |-> 1, fraction |-> 91,
             depth |-> 13, seconds |-> 0, time_dec |-> [len |-> 3, f |-> 31],
             trailing |-> <<>>]),
     Format([sign |-> <<"+">>, mate |-> Some(17), int_part |-> 0, fraction |-> 0,
             depth |-> 13, seconds |-> 12, time_dec |-> [len |-> 1, f |-> 2],
             trailing |-> <<" ", "x">>])}
\* "x" and "-1.91/13 0.031": no trailing s
SampleBad ==
    {<<"x">>,
     <<"-", "1", ".", "9", "1", "/", "1", "3", " ", "0", ".", "0", "3", "1">>}

RawComments == {None} \cup {Some(c) : c \in SampleGood \cup SampleBad}

RawGames ==
    {RawGame(t, cs) : t \in Terminations, cs \in SeqsUpTo(RawComments, MaxRawPly)}

\* the games of the batches: at most one ply each
BatchComments == {None, Some(<<"x">>)} \cup {Some(c) : c \in SampleGood}
BatchGames ==
    {RawGame(t, cs) : t \in Terminations, cs \in SeqsUpTo(BatchComments, 1)}

InitSingle ==
    /\ raw_game \in {Some(g) : g \in RawGames}
    /\ single_result = None
    /\ comment = <<>>
    /\ parsed = None
    /\ raw_games = <<>>
    /\ mindex = 0
    /\ result = <<>>
    /\ map_result = None
    /\ mpc = "idle"
    /\ AdjIdle
    /\ TestIdle
    /\ MainIdle
    /\ resign_rule = None
    /\ draw_rule = None

NextSingle == MapSingleCall

SpecMapSingle == InitSingle /\ [][NextSingle]_vars

InitMap ==
    /\ raw_games \in SeqsUpTo(BatchGames, MaxBatch)
    /\ mindex = 0
    /\ result = <<>>
    /\ map_result = None
    /\ mpc = "loop"
    /\ raw_game = None
    /\ single_result = None
    /\ comment = <<>>
    /\ parsed = None
    /\ AdjIdle
    /\ TestIdle
    /\ MainIdle
    /\ resign_rule = None
    /\ draw_rule = None

NextMap == MapGameStep \/ MapGameReturn

SpecMap == InitMap /\ [][NextMap]_vars

-----------------------------------------------------------------------------
(* What makes a raw game malformed, read from the raw game alone           *)

\* the plies whose comment is absent or outside the grammar
FaultyPlies(g) ==
    {p \in 0..(Len(g.moves) - 1) :
        \/ g.moves[p + 1].comment = None
        \/ Unwrap(g.moves[p + 1].comment) \in BadComments}

Malformed(g) == g.termination = "Unknown" \/ FaultyPlies(g) # {}

FailureKind(g) ==
    IF g.termination = "Unknown" THEN "UnknownGameTermination"
    ELSE IF g.moves[MinOf(FaultyPlies(g)) + 1].comment = None
    THEN "MissingComment" ELSE "BadComment"

Score10Of(termination) ==
    CASE termination = "WhiteWins" -> 10
      [] termination = "DrawnGame" -> 5
      [] termination = "BlackWins" -> 0

(* C6  Fail-fast mapping: map_game_data returns one GameData per raw game  *)
(* in the same order when every game is well-formed; otherwise exactly one *)
(* GameMappingError with the 1-based number of the first malformed game    *)
(* and that game's failure kind, no GameData at all, and no later game is  *)
(* inspected.                                                              *)

C6_FailFast ==
    mpc = "done" =>
    LET r == Unwrap(map_result)
        M == {k \in 1..Len(raw_games) : Malformed(raw_games[k])}
    IN  IF M = {}
        THEN /\ IsOk(r)
             /\ Len(r.value) = Len(raw_games)
             /\ \A k \in 1..Len(raw_games) :
                   /\ r.value[k].score10 = Score10Of(raw_games[k].termination)
                   /\ r.value[k].len = Len(raw_games[k].moves)
        ELSE /\ IsErr(r)
             /\ DOMAIN r.value = {"game_number", "error"}
             /\ r.value.game_number = MinOf(M)
             /\ r.value.error.type = FailureKind(raw_games[MinOf(M)])
             /\ mindex = MinOf(M) - 1

\* the second of three games is the first malformed one, the third is
\* malformed in another way, and the batch was refused
C6_Witness ==
    /\ mpc = "done"
    /\ Len(raw_games) = 3
    /\ ~Malformed(raw_games[1])
    /\ Malformed(raw_games[2])
    /\ Malformed(raw_games[3])
    /\ FailureKind(raw_games[2]) # FailureKind(raw_games[3])
    /\ IsErr(Unwrap(map_result))

(* C7  map_single_game_data fails with UnknownGameTermination (no ply)     *)
(* whenever the termination is Unknown, whatever the comments; otherwise   *)
(* at the first ply whose comment is absent or unparsable, MissingComment  *)
(* with the 0-based ply for an absent comment and BadComment with ply + 1  *)
(* for an unparsable one; WhiteWins / Draw / BlackWins map to 10 / 5 / 0.  *)

C7_MappingErrors ==
    single_result # None =>
    LET g == Unwrap(raw_game)
        r == Unwrap(single_result)
        F == FaultyPlies(g)
    IN  IF g.termination = "Unknown"
        THEN IsErr(r) /\ r.value = UnknownGameTermination
        ELSE IF F = {}
        THEN /\ IsOk(r)
             /\ r.value.score10 = Score10Of(g.termination)
             /\ r.value.len = Len(g.moves)
             /\ Len(r.value.move_data) = Len(g.moves)
        ELSE IF g.moves[MinOf(F) + 1].comment = None
        THEN IsErr(r) /\ r.value = MissingComment(MinOf(F))
        ELSE IsErr(r) /\ r.value.type = "BadComment" /\ r.value.ply = MinOf(F) + 1

\* a well-formed ply 0, a bad comment at ply 1 (reported as ply 2), an
\* absent comment at ply 2
C7_Witness ==
    /\ single_result # None
    /\ IsErr(Unwrap(single_result))
    /\ Unwrap(single_result).value.type = "BadComment"
    /\ Unwrap(single_result).value.ply = 2
    /\ Len(Unwrap(raw_game).moves) = 3
    /\ Unwrap(raw_game).moves[3].comment = None

-----------------------------------------------------------------------------
(* main, rule_test.rs 166-212, and read_games, main.rs 110-159             *)

\* the Result of map_game_data, given what map_single_game_data made of
\* each game: Ok of every GameData, or the error of the first refusal
MapGameResult(mapped) ==
    IF \A i \in DOMAIN mapped : IsOk(mapped[i])
    THEN Ok([i \in DOMAIN mapped |-> mapped[i].value])
    ELSE LET first == CHOOSE i \in DOMAIN mapped :
                         /\ ~IsOk(mapped[i])
                         /\ \A j \in 1..(i - 1) : IsOk(mapped[j])
         IN  Err([game_number |-> GameNumber(first - 1),
                  error |-> mapped[first].value])

\* map_game_data(games), as read_games calls it
MapGameData(gs) ==
    MapGameResult([i \in 1..Len(gs) |-> MapSingleGameData(gs[i])])

\* the line main prints for a rule that failed to parse
ResignDiagnostic(e) ==
    CASE e = "BadFormat" -> "error: Resign rule has bad format"
      [] e = "NonPositiveEval" -> "error: Resign rule evaluation must be positive"
      [] e = "NonPositiveCount" -> "error: Resign rule count must be positive"

DrawDiagnostic(e) ==
    CASE e = "BadFormat" -> "error: Draw rule has bad format"
      [] e = "NonPositiveFromMove" -> "error: Draw rule move from must be positive"
      [] e = "NegativeEval" -> "error: Draw rule evaluation must be positive"
      [] e = "NonPositiveCount" -> "error: Draw rule count must be positive"

\* the line read_games prints for a batch that failed to map
MappingDiagnostic(e) ==
    IF e.error.type = "UnknownGameTermination"
    THEN <<"error: Game", e.game_number, "has unknown result">>
    ELSE IF e.error.type = "MissingComment"
    THEN <<"error: Game", e.game_number, "Ply", e.error.ply, "- Missing comment">>
    ELSE <<"error: Game", e.game_number, "Ply", e.error.ply, "- Bad comment format">>

\* what a panic of the main thread leaves on stderr, and its exit code
PanicLines(m) == <<"thread 'main' panicked", m>>
PanicExitCode == 101

\* the match on the result of map_game_data
ReadGamesMapped(m) == IF IsOk(m) THEN m ELSE Err(MappingDiagnostic(m.value))

\* read_games: the file is missing, unreadable, no PGN, or holds raw games
ReadGames(file) ==
    IF file.state = "missing" THEN Err("error: Can't open file")
    ELSE IF file.state = "unreadable" THEN Err("error: Can't read file")
    ELSE IF file.state = "garbage" THEN Err("error: Can't parse pgn file")
    ELSE ReadGamesMapped(MapGameData(file.games))

\* let resign_rule = match parse_resign_rule(...)
MainParseResign ==
    /\ main_pc = "parse_resign"
    /\ LET r == ParseResignRule(resign_input)
       IN  IF IsOk(r)
           THEN /\ resign_rule' = r.value
                /\ main_pc' = "parse_draw"
                /\ UNCHANGED <<stderr, exit_code>>
           ELSE IF IsErr(r)
           THEN /\ stderr' = Append(stderr, ResignDiagnostic(r.value))
                /\ exit_code' = Some(1)
                /\ main_pc' = "exited"
                /\ UNCHANGED resign_rule
           ELSE /\ stderr' = stderr \o PanicLines(r.value)
                /\ exit_code' = Some(PanicExitCode)
                /\ main_pc' = "exited"
                /\ UNCHANGED resign_rule
    /\ UNCHANGED <<resign_input, draw_input, draw_rule, game, ply0, total_time,
                   resign_counts, draw_count, rule_applied,
                   adjudicated_outcome, outcome, pc>>
    /\ UNCHANGED <<testVars, parseVars, singleVars, mapVars>>

\* let draw_rule = match parse_draw_rule(...)
MainParseDraw ==
    /\ main_pc = "parse_draw"
    /\ LET r == ParseDrawRule(draw_input)
       IN  IF IsOk(r)
           THEN /\ draw_rule' = r.value
                /\ main_pc' = "read_games"
                /\ UNCHANGED <<stderr, exit_code>>
           ELSE IF IsErr(r)
           THEN /\ stderr' = Append(stderr, DrawDiagnostic(r.value))
                /\ exit_code' = Some(1)
                /\ main_pc' = "exited"
                /\ UNCHANGED draw_rule
           ELSE /\ stderr' = stderr \o PanicLines(r.value)
                /\ exit_code' = Some(PanicExitCode)
                /\ main_pc' = "exited"
                /\ UNCHANGED draw_rule
    /\ UNCHANGED <<resign_input, draw_input, resign_rule, game, ply0,
                   total_time, resign_counts, draw_count, rule_applied,
                   adjudicated_outcome, outcome, pc>>
    /\ UNCHANGED <<testVars, parseVars, singleVars, mapVars>>

\* the files of SpecMain
MainFiles ==
    {[state |-> "missing", games |-> <<>>],
     [state |-> "unreadable", games |-> <<>>],
     [state |-> "garbage", games |-> <<>>],
     [state |-> "pgn", games |-> <<>>],
     [state |-> "pgn", games |-> <<RawGame("WhiteWins", <<>>)>>],
     [state |-> "pgn", games |-> <<RawGame("Unknown", <<>>)>>],
     [state |-> "pgn", games |-> <<RawGame("DrawnGame", <<None>>)>>],
     [state |-> "pgn", games |->
        <<RawGame("BlackWins", <<>>), RawGame("DrawnGame", <<Some(<<"x">>)>>)>>]}

\* what read_games makes of the files of SpecMain
MainReadResults == {ReadGames(file) : file \in MainFiles}

\* let game_data = read_games(&matches); then test_rule is entered
MainReadGames ==
    /\ main_pc = "read_games"
    /\ \E r \in MainReadResults, v \in BOOLEAN :
              IF IsOk(r)
              THEN /\ games' = r.value
                   /\ verbose' = v
                   /\ index' = 0
                   /\ acc' = TestRuleStart
                   /\ stdout' = IF v THEN <<"header">> ELSE <<>>
                   /\ tpc' = "loop"
                   /\ main_pc' = "test_rule"
                   /\ UNCHANGED <<stderr, exit_code>>
              ELSE /\ stderr' = Append(stderr, r.value)
                   /\ exit_code' = Some(1)
                   /\ main_pc' = "exited"
                   /\ UNCHANGED testVars
    /\ UNCHANGED <<resign_input, draw_input>>
    /\ UNCHANGED <<adjVars, parseVars, singleVars, mapVars>>

\* test_rule has returned: main returns, the process exits with 0
MainExit ==
    /\ main_pc = "test_rule"
    /\ tpc = "done"
    /\ exit_code' = Some(0)
    /\ main_pc' = "exited"
    /\ UNCHANGED <<resign_input, draw_input, stderr>>
    /\ UNCHANGED <<adjVars, testVars, parseVars, singleVars, mapVars>>

\* longest resign_rule / draw_rule argument (in characters) of SpecMain
MaxResignLen == 3
MaxDrawLen == 5

ResignInputs == {StrNone} \cup SeqsUpTo({"1", "0", "/", "-"}, MaxResignLen)
DrawInputs == {StrNone} \cup SeqsUpTo({"1", "0", ":", "/"}, MaxDrawLen)

InitMain ==
    /\ resign_input \in ResignInputs
    /\ draw_input \in DrawInputs
    /\ stderr = <<>>
    /\ exit_code = None
    /\ main_pc = "parse_resign"
    /\ resign_rule = None
    /\ draw_rule = None
    /\ AdjIdle
    /\ TestIdle
    /\ MapIdle

NextMain ==
    \/ MainParseResign
    \/ MainParseDraw
    \/ MainReadGames
    \/ TestRuleStep
    \/ TestRuleReport
    \/ MainExit

SpecMain == InitMain /\ [][NextMain]_vars

\* a rule specification as section 6 of the documentation writes it
PositiveInt(s) ==
    Len(s) > 0 /\ IsDigits(s) /\ \E i \in 1..Len(s) : s[i] # "0"

ValidResignSpec(s) ==
    \/ s = StrNone
    \/ \E i \in 1..Len(s) :
          /\ s[i] = "/"
          /\ PositiveInt(SubSeq(s, 1, i - 1))
          /\ PositiveInt(SubSeq(s, i + 1, Len(s)))

ValidDrawSpec(s) ==
    \/ s = StrNone
    \/ \E i, j \in 1..Len(s) :
          /\ i < j
          /\ s[i] = ":"
          /\ s[j] = "/"
          /\ PositiveInt(SubSeq(s, 1, i - 1))
          /\ PositiveInt(SubSeq(s, i + 1, j - 1))
          /\ PositiveInt(SubSeq(s, j + 1, Len(s)))

(* C10  Rule-specification failures are reported errors: for every         *)
(* resign_rule that is neither "none" nor <positive-int>/<positive-int>,   *)
(* and every draw_rule that is neither "none" nor                          *)
(* <positive-int>:<positive-int>/<positive-int>, the test command exits    *)
(* with code 1 and exactly one diagnostic line, never crashes and never    *)
(* prints a report.                                                        *)

C10_RuleErrorsReported ==
    (main_pc = "exited"
        /\ (~ValidResignSpec(resign_input) \/ ~ValidDrawSpec(draw_input))) =>
        /\ exit_code = Some(1)
        /\ Len(stderr) = 1
        /\ stdout = <<>>

-----------------------------------------------------------------------------
(* C11  Streak reset, no carry-over: on every ply processed while no rule  *)
(* has fired, the draw counter becomes previous + 1 if |eval| <= draw.eval *)
(* and 0 otherwise; if the draw rule does not fire on that ply, the        *)
(* mover's resign counter becomes previous + 1 if eval <= -resign.eval and *)
(* 0 otherwise, and the other side's counter is left unchanged.            *)

C11_StreakStep ==
    (pc = "loop" /\ ply0' = ply0 + 1 /\ adjudicated_outcome = None) =>
        LET eval == MoveAt(game, ply0).eval
            side == ply0 % 2
        IN  /\ draw_count' =
                 IF Abs(eval) <= draw_rule.eval THEN draw_count + 1 ELSE 0
            /\ rule_applied' # Some("Draw") =>
                 /\ resign_counts'[side] =
                      IF eval <= -resign_rule.eval
                      THEN resign_counts[side] + 1 ELSE 0
                 /\ resign_counts'[1 - side] = resign_counts[1 - side]

C11_StreakReset == [][C11_StreakStep]_vars

\* no rule has fired, and the last ply has reset both a draw streak and
\* the mover's resign streak to 0
C11_Witness ==
    /\ pc = "loop"
    /\ ply0 >= 3
    /\ adjudicated_outcome = None
    /\ DrawStreak(game, ply0 - 2, draw_rule) >= 1
    /\ ResignStreak(game, ply0 - 3, resign_rule) >= 1
    /\ draw_count = 0
    /\ resign_counts[(ply0 - 1) % 2] = 0

-----------------------------------------------------------------------------
(* C12  Draw takes precedence on the same ply: if, with no rule fired      *)
(* before, the draw trigger condition holds at ply p and the mover's       *)
(* resign streak would also reach resign.count on p, the step records Draw *)
(* with score10 = 5 and length p + 1, and leaves the resign counters as    *)
(* they were.                                                              *)

\* the mover's resign counter would reach resign.count on ply p
C12_ResignWouldFire(p) ==
    /\ MoveAt(game, p).eval <= -resign_rule.eval
    /\ resign_counts[p % 2] + 1 = resign_rule.count

C12_DrawFirstStep ==
    (/\ pc = "loop"
     /\ ply0' = ply0 + 1
     /\ adjudicated_outcome = None
     /\ DrawCond(game, ply0, draw_rule)
     /\ C12_ResignWouldFire(ply0)) =>
        /\ rule_applied' = Some("Draw")
        /\ adjudicated_outcome' =
              Some(GameStats(ply0 + 1,
                             total_time + MoveAt(game, ply0).time, 5))
        /\ resign_counts' = resign_counts

C12_DrawPrecedence == [][C12_DrawFirstStep]_vars

\* Draw was recorded on the last ply, on which the mover's resign streak
\* would have reached resign.count as well
C12_Witness ==
    /\ pc = "loop"
    /\ ply0 >= 1
    /\ rule_applied = Some("Draw")
    /\ Unwrap(adjudicated_outcome).length = ply0
    /\ Unwrap(adjudicated_outcome).score10 = 5
    /\ C12_ResignWouldFire(ply0 - 1)

-----------------------------------------------------------------------------
(* C13  Each resign_counts[side] is at most resign.count in every          *)
(* reachable state, and a counter that has reached resign.count has fired  *)
(* the resign rule for that side: the == test fires on the plies a >= test *)
(* would, and a streak never overshoots the threshold without firing.      *)

C13_NoOvershoot ==
    \A side \in 0..1 :
        /\ resign_counts[side] <= resign_rule.count
        /\ resign_counts[side] >= resign_rule.count =>
              /\ rule_applied = Some("Resign")
              /\ adjudicated_outcome # None
              /\ (Unwrap(adjudicated_outcome).length - 1) % 2 = side
              /\ Unwrap(adjudicated_outcome).score10 =
                    (IF side = 0 THEN 0 ELSE 10)

\* the resign rule has fired, and the same side's next move, which extends
\* the streak, has been processed without moving the counter
C13_Witness ==
    /\ pc = "loop"
    /\ rule_applied = Some("Resign")
    /\ resign_rule.count = 2
    /\ ply0 = Unwrap(adjudicated_outcome).length + 2
    /\ MoveAt(game, ply0 - 1).eval <= -resign_rule.eval
    /\ resign_counts[(ply0 - 1) % 2] = resign_rule.count

-----------------------------------------------------------------------------
(* C14  Earliest draw adjudication: whenever Draw is applied, the          *)
(* adjudicated length is at least 2 * draw.from_move and at least          *)
(* 2 * draw.count; the draw rule fires no earlier than ply index           *)
(* 2 * from_move - 1, even when the draw streak is long enough before.     *)

C14_EarliestDraw ==
    /\ rule_applied = Some("Draw") =>
          /\ Unwrap(adjudicated_outcome).length >= 2 * draw_rule.from_move
          /\ Unwrap(adjudicated_outcome).length >= 2 * draw_rule.count
    /\ (pc = "done" /\ outcome.rule_applied = Some("Draw")) =>
          /\ outcome.adjudicated.length >= 2 * draw_rule.from_move
          /\ outcome.adjudicated.length >= 2 * draw_rule.count
          /\ outcome.adjudicated.length - 1 >= 2 * draw_rule.from_move - 1

\* Draw is returned with length 2 * from_move although the streak was
\* already 2 * count long one ply earlier, on ply index 2 * from_move - 2
C14_Witness ==
    /\ pc = "done"
    /\ outcome.rule_applied = Some("Draw")
    /\ draw_rule.from_move = 2
    /\ outcome.adjudicated.length = 2 * draw_rule.from_move
    /\ DrawStreak(game, 2 * draw_rule.from_move - 2, draw_rule)
          >= 2 * draw_rule.count

-----------------------------------------------------------------------------
(* C15  Time-saved accounting: for every outcome, time_saved is            *)
(* actual.time - adjudicated.time when the adjudicated score equals the    *)
(* actual score and 0 otherwise, and is never negative; after any number   *)
(* of folded games, resign_time_saved + draw_time_saved is at most total   *)
(* actual_time - total adjudicated_time, with equality exactly when no     *)
(* wrongly adjudicated game stopped early with a positive time difference. *)

\* actual.time - adjudicated.time of game i
C15_Difference(i) == OutcomeOf(i).actual.time - OutcomeOf(i).adjudicated.time

\* the folded games adjudicated wrongly with a positive time difference
C15_WrongEarly ==
    {i \in 1..index :
        /\ OutcomeOf(i).adjudicated.score10 # OutcomeOf(i).actual.score10
        /\ C15_Difference(i) > 0}

C15_TimeSavedAccounting ==
    tpc \in {"loop", "done"} =>
        /\ \A i \in 1..index :
              /\ TimeSaved(OutcomeOf(i)) =
                    (IF OutcomeOf(i).adjudicated.score10
                          = OutcomeOf(i).actual.score10
                     THEN C15_Difference(i) ELSE 0)
              /\ TimeSaved(OutcomeOf(i)) >= 0
        /\ acc.resign_time_saved + acc.draw_time_saved
              <= acc.actual_time - acc.adjudicated_time
        /\ (acc.resign_time_saved + acc.draw_time_saved
              = acc.actual_time - acc.adjudicated_time)
              <=> (C15_WrongEarly = {})

\* a batch is folded in which a rightly adjudicated game saved time and a
\* wrongly adjudicated one stopped early, so the inequality is strict
C15_Witness ==
    /\ tpc = "done"
    /\ index = Len(games)
    /\ C15_WrongEarly # {}
    /\ acc.resign_time_saved + acc.draw_time_saved > 0
    /\ acc.resign_time_saved + acc.draw_time_saved
          < acc.actual_time - acc.adjudicated_time

=============================================================================
